---- MODULE Spec2Model ----
(***************************************************************************)
(* Personal Library Manager (library_manager.py).                          *)
(*                                                                         *)
(* The catalog is a list of book dictionaries held in the session state,   *)
(* rewritten in full to library.json after every add, edit and delete.     *)
(* Strings that the program inspects character by character (title,       *)
(* author, search query) are sequences of one-character strings; the genre *)
(* is only compared for equality and emptiness and is a plain string.      *)
(* List indices are Python's (0-based); library[i] of the program is       *)
(* library[i + 1] here.                                                    *)
(***************************************************************************)
EXTENDS Integers, Sequences, FiniteSets, TLC

VARIABLES
    library,    \* st.session_state.library: the in-memory catalog
    store,      \* library.json: NoFile, or the document as a token sequence
    covers,     \* the covers/ directory: file name -> content
    op,         \* the button / page that ran last
    out         \* what the last run rendered

vars == <<library, store, covers, op, out>>

-----------------------------------------------------------------------------
(* Bounds of the model *)

\* Longest catalog the add/edit/delete specification builds
MaxBooks == 3
\* Longest stored catalog the query specification starts from
MaxCatalog == 4

(* Program constants *)

\* top_rated[:3]
TopN == 3
\* b['rating'] >= 4
MinTopRating == 4
COVER_FOLDER == "covers"

-----------------------------------------------------------------------------
(* Inputs the widgets can deliver *)

NoUpload == [present |-> FALSE, name |-> "", data |-> 0]
CoverUpload == [present |-> TRUE, name |-> "a.png", data |-> 1]

\* What the Add Book page's widgets hold when the button is pressed
AddInputs == {
    [title |-> <<"A", "b">>, author |-> <<"B", "a">>, year |-> 1999, genre |-> "Sci-Fi",
     read |-> "Yes", rating |-> 5, cover_image |-> CoverUpload],
    [title |-> <<"b">>, author |-> <<"a">>, year |-> 2001, genre |-> "Drama",
     read |-> "No", rating |-> 3, cover_image |-> NoUpload],
    [title |-> <<>>, author |-> <<"a">>, year |-> 2001, genre |-> "Drama",
     read |-> "No", rating |-> 4, cover_image |-> CoverUpload],
    [title |-> <<"b">>, author |-> <<>>, year |-> 2001, genre |-> "Drama",
     read |-> "Yes", rating |-> 4, cover_image |-> NoUpload],
    [title |-> <<"b">>, author |-> <<"a">>, year |-> 2001, genre |-> "",
     read |-> "Yes", rating |-> 4, cover_image |-> CoverUpload] }

\* What the edit form's widgets hold when it is submitted
EditInputs == {
    [title |-> <<"B">>, author |-> <<"a", "b">>, year |-> 2001, genre |-> "Drama",
     read |-> "Yes", rating |-> 4],
    [title |-> <<>>, author |-> <<>>, year |-> 1999, genre |-> "",
     read |-> "Yes", rating |-> 2] }

\* What the search box holds
Queries == { <<>>, <<"a">>, <<"B">>, <<"a", "B">>, <<"b", "a">> }

-----------------------------------------------------------------------------
(* str.lower and the `in` operator on strings *)

LowerChar(c) ==
    CASE c = "A" -> "a"
      [] c = "B" -> "b"
      [] OTHER -> c

lower(s) == [k \in 1..Len(s) |-> LowerChar(s[k])]

\* sub in s
Contains(sub, s) ==
    \E off \in 0..(Len(s) - Len(sub)) :
        \A k \in 1..Len(sub) : s[off + k] = sub[k]

-----------------------------------------------------------------------------
(* json.dump / json.load of a list of book dictionaries.  The document is  *)
(* the token sequence of the JSON text.                                    *)

NoFile == << [t |-> "absent"] >>

Punct(c) == [t |-> "punct", p |-> c]
Key(k) == [t |-> "key", k |-> k]
JStr(s) == [t |-> "string", s |-> s]
JNum(n) == [t |-> "number", n |-> n]
JBool(b) == [t |-> "literal", lit |-> IF b THEN "true" ELSE "false"]

BookKeys == <<"title", "author", "year", "genre", "read", "rating", "cover">>

DumpValue(k, v) ==
    CASE k \in {"year", "rating"} -> JNum(v)
      [] k = "read" -> JBool(v)
      [] OTHER -> JStr(v)

RECURSIVE DumpMembers(_, _)
DumpMembers(book, n) ==
    IF n = 0 THEN <<>>
    ELSE DumpMembers(book, n - 1)
         \o (IF n > 1 THEN << Punct(",") >> ELSE <<>>)
         \o << Key(BookKeys[n]), Punct(":"), DumpValue(BookKeys[n], book[BookKeys[n]]) >>

DumpBook(book) == << Punct("{") >> \o DumpMembers(book, Len(BookKeys)) \o << Punct("}") >>

RECURSIVE DumpItems(_, _)
DumpItems(data, n) ==
    IF n = 0 THEN <<>>
    ELSE DumpItems(data, n - 1)
         \o (IF n > 1 THEN << Punct(",") >> ELSE <<>>)
         \o DumpBook(data[n])

\* json.dump(data, f, indent=4)
JsonDump(data) == << Punct("[") >> \o DumpItems(data, Len(data)) \o << Punct("]") >>

IsPunct(tok, c) == tok.t = "punct" /\ tok.p = c

\* Variant: the literals read with Python's spelling, so "true" is not recognised
LoadValuePythonLiterals(tok) ==
    CASE tok.t = "string" -> tok.s
      [] tok.t = "number" -> tok.n
      [] tok.t = "literal" -> (tok.lit = "True")

LoadValue(tok) ==
    CASE tok.t = "string" -> tok.s
      [] tok.t = "number" -> tok.n
      [] tok.t = "literal" -> (tok.lit = "true")

\* Members of one object, from the token after "{" up to its "}":
\* the object read so far and the position after the "}".
RECURSIVE LoadMembers(_, _, _)
LoadMembers(doc, pos, obj) ==
    IF IsPunct(doc[pos], "}") THEN [value |-> obj, next |-> pos + 1]
    ELSE IF IsPunct(doc[pos], ",") THEN LoadMembers(doc, pos + 1, obj)
    ELSE LoadMembers(doc, pos + 3,
                     [k \in DOMAIN obj \cup {doc[pos].k} |->
                         IF k = doc[pos].k THEN LoadValue(doc[pos + 2]) ELSE obj[k]])

EmptyObject == [k \in {} |-> 0]

\* Items of the list, from the token after "[" up to its "]".
RECURSIVE LoadItems(_, _, _)
LoadItems(doc, pos, items) ==
    IF IsPunct(doc[pos], "]") THEN items
    ELSE IF IsPunct(doc[pos], ",") THEN LoadItems(doc, pos + 1, items)
    ELSE LET m == LoadMembers(doc, pos + 1, EmptyObject)
         IN  LoadItems(doc, m.next, Append(items, m.value))

\* json.load(f)
JsonLoad(doc) == LoadItems(doc, 2, <<>>)

\* load_data(): the file's catalog, or [] when there is no file
load_data(file) == IF file = NoFile THEN <<>> ELSE JsonLoad(file)

\* save_data(data): the file after the write
save_data(data) == JsonDump(data)

-----------------------------------------------------------------------------
(* The cover directory *)

\* os.path.join(COVER_FOLDER, cover_image.name)
CoverPath(name) == <<COVER_FOLDER, name>>

NoCovers == [n \in {} |-> 0]

\* open(cover_path, "wb").write(cover_image.read())
WriteCover(dir, name, data) ==
    [n \in DOMAIN dir \cup {name} |-> IF n = name THEN data ELSE dir[n]]

-----------------------------------------------------------------------------
(* Startup *)

Idle == [page |-> "none"]

Init ==
    /\ store \in { NoFile, save_data(<<>>) }
    /\ library = load_data(store)
    /\ covers = NoCovers
    /\ op = [name |-> "start", i |-> -1]
    /\ out = Idle

-----------------------------------------------------------------------------
(* Add Book *)

\* Variant: the cover is written before the required fields are checked
AddBookCoverFirst(title, author, year, genre, read, rating, cover_image) ==
    /\ covers' = IF cover_image.present
                 THEN WriteCover(covers, cover_image.name, cover_image.data)
                 ELSE covers
    /\ IF title # <<>> /\ author # <<>> /\ genre # ""
       THEN LET cover_path == IF cover_image.present
                              THEN CoverPath(cover_image.name) ELSE <<>>
                new_book == [title |-> title, author |-> author, year |-> year,
                             genre |-> genre, read |-> (read = "Yes"),
                             rating |-> rating, cover |-> cover_path]
            IN  /\ library' = Append(library, new_book)
                /\ store' = save_data(library')
                /\ op' = [name |-> "add", i |-> Len(library)]
                /\ out' = [page |-> "add", message |-> "success"]
       ELSE /\ UNCHANGED <<library, store>>
            /\ op' = [name |-> "add_rejected", i |-> -1]
            /\ out' = [page |-> "add", message |-> "warning"]

AddBook(title, author, year, genre, read, rating, cover_image) ==
    /\ IF title # <<>> /\ author # <<>> /\ genre # ""
       THEN LET cover_path == IF cover_image.present
                              THEN CoverPath(cover_image.name) ELSE <<>>
                new_book == [title |-> title, author |-> author, year |-> year,
                             genre |-> genre, read |-> (read = "Yes"),
                             rating |-> rating, cover |-> cover_path]
            IN  /\ covers' = IF cover_image.present
                             THEN WriteCover(covers, cover_image.name, cover_image.data)
                             ELSE covers
                /\ library' = Append(library, new_book)
                /\ store' = save_data(library')
                /\ op' = [name |-> "add", i |-> Len(library)]
                /\ out' = [page |-> "add", message |-> "success"]
       ELSE /\ UNCHANGED <<library, store, covers>>
            /\ op' = [name |-> "add_rejected", i |-> -1]
            /\ out' = [page |-> "add", message |-> "warning"]

(* View Library: Edit form submitted for entry i.  The handler writes the   *)
(* form's values into the record as they are; unlike Add Book it has no    *)
(* check of the required fields.  The cover is not part of the form.       *)

UpdateBook(book, new_title, new_author, new_year, new_genre, new_read, new_rating) ==
    [book EXCEPT !.title = new_title, !.author = new_author, !.year = new_year,
                 !.genre = new_genre, !.read = (new_read = "Yes"),
                 !.rating = new_rating]

\* Variant: the edit is not followed by save_data
EditBookNoSave(i, new_title, new_author, new_year, new_genre, new_read, new_rating) ==
    /\ i \in 0..(Len(library) - 1)
    /\ library' = [library EXCEPT ![i + 1] =
                      UpdateBook(@, new_title, new_author, new_year, new_genre,
                                 new_read, new_rating)]
    /\ op' = [name |-> "edit", i |-> i]
    /\ out' = [page |-> "view", message |-> "updated"]
    /\ UNCHANGED <<store, covers>>

EditBook(i, new_title, new_author, new_year, new_genre, new_read, new_rating) ==
    /\ i \in 0..(Len(library) - 1)
    /\ library' = [library EXCEPT ![i + 1] =
                      UpdateBook(@, new_title, new_author, new_year, new_genre,
                                 new_read, new_rating)]
    /\ store' = save_data(library')
    /\ op' = [name |-> "edit", i |-> i]
    /\ out' = [page |-> "view", message |-> "updated"]
    /\ UNCHANGED covers

(* View Library: Delete pressed for entry i *)

\* Variant: library.pop() without the index
PopLast(lst, i) == SubSeq(lst, 1, Len(lst) - 1)

\* library.pop(i)
Pop(lst, i) == SubSeq(lst, 1, i) \o SubSeq(lst, i + 2, Len(lst))

DeleteBook(i) ==
    /\ i \in 0..(Len(library) - 1)
    /\ library' = Pop(library, i)
    /\ store' = save_data(library')
    /\ op' = [name |-> "delete", i |-> i]
    /\ out' = [page |-> "view", message |-> "deleted"]
    /\ UNCHANGED covers

-----------------------------------------------------------------------------------------------------------------------------------------------------
(* Search Books *)

\* Variant: the title is not lower-cased
MatchesTitleAsTyped(query, b) ==
    Contains(lower(query), b.title) \/ Contains(lower(query), lower(b.author))

\* Variant: the author is not searched
MatchesTitleOnly(query, b) == Contains(lower(query), lower(b.title))

Matches(query, b) ==
    Contains(lower(query), lower(b.title)) \/ Contains(lower(query), lower(b.author))

\* [b for b in library if query.lower() in b['title'].lower() or ...]
RECURSIVE SearchResults(_, _)
SearchResults(lib, query) ==
    IF lib = <<>> THEN <<>>
    ELSE (IF Matches(query, Head(lib)) THEN << Head(lib) >> ELSE <<>>)
         \o SearchResults(Tail(lib), query)

SearchBooks(query) ==
    /\ out' = IF query # <<>>
              THEN LET results == SearchResults(library, query)
                   IN  [page |-> "search", query |-> query, ran |-> TRUE,
                        results |-> results,
                        message |-> IF results # <<>> THEN "" ELSE "No matches found."]
              ELSE [page |-> "search", query |-> query, ran |-> FALSE,
                    results |-> <<>>, message |-> ""]
    /\ op' = [name |-> "search", i |-> -1]
    /\ UNCHANGED <<library, store, covers>>

(* Statistics *)

\* Variant: the sum without its `if`
CountEvery(lib) == Len(lib)

\* sum(1 for b in library if b['read'])
RECURSIVE CountRead(_)
CountRead(lib) ==
    IF lib = <<>> THEN 0
    ELSE (IF Head(lib).read THEN 1 ELSE 0) + CountRead(Tail(lib))

\* [b['genre'] for b in library]
GenreSeries(lib) == [k \in 1..Len(lib) |-> lib[k].genre]

\* Series.value_counts(): value -> number of occurrences
ValueCounts(series) ==
    [g \in {series[k] : k \in 1..Len(series)} |->
        Cardinality({k \in 1..Len(series) : series[k] = g})]

Statistics ==
    /\ LET total == Len(library)
           read == CountRead(library)
           unread == total - read
           genres == GenreSeries(library)
       IN  out' = [page |-> "statistics", total |-> total, read |-> read,
                   unread |-> unread, genres |-> ValueCounts(genres)]
    /\ op' = [name |-> "statistics", i |-> -1]
    /\ UNCHANGED <<library, store, covers>>

(* Recommendations *)

\* Python's order of the genre strings in use ("" < "Drama" < "Sci-Fi")
GenreOrder == <<"", "Drama", "Sci-Fi">>
GenreRank(g) == CHOOSE k \in 1..Len(GenreOrder) : GenreOrder[k] = g

\* [b['genre'] for b in library if b['read']]
RECURSIVE ReadGenres(_)
ReadGenres(lib) ==
    IF lib = <<>> THEN <<>>
    ELSE (IF Head(lib).read THEN << Head(lib).genre >> ELSE <<>>)
         \o ReadGenres(Tail(lib))

RECURSIVE SortedGenres(_)
SortedGenres(S) ==
    IF S = {} THEN <<>>
    ELSE LET least == CHOOSE g \in S : \A h \in S : GenreRank(g) <= GenreRank(h)
         IN  << least >> \o SortedGenres(S \ {least})

\* Series.mode(): the most frequent values, sorted
Mode(series) ==
    LET counts == ValueCounts(series)
        modes == {g \in DOMAIN counts : \A h \in DOMAIN counts : counts[h] <= counts[g]}
    IN  SortedGenres(modes)

\* Series.any(): some element is truthy (a non-empty string)
SeriesAny(series) == \E k \in 1..Len(series) : series[k] # ""

\* Variant: x goes in front of the elements of its own rating
RECURSIVE InsertBeforeEqual(_, _)
InsertBeforeEqual(sorted, x) ==
    IF sorted = <<>> THEN << x >>
    ELSE IF Head(sorted).rating > x.rating
         THEN << Head(sorted) >> \o InsertBeforeEqual(Tail(sorted), x)
         ELSE << x >> \o sorted

\* Insert x behind every element rated at least as high (the sort is stable)
RECURSIVE InsertByRating(_, _)
InsertByRating(sorted, x) ==
    IF sorted = <<>> THEN << x >>
    ELSE IF Head(sorted).rating >= x.rating
         THEN << Head(sorted) >> \o InsertByRating(Tail(sorted), x)
         ELSE << x >> \o sorted

\* sorted(lst, key=lambda x: x['rating'], reverse=True)
RECURSIVE SortedByRating(_)
SortedByRating(lst) ==
    IF lst = <<>> THEN <<>>
    ELSE InsertByRating(SortedByRating(SubSeq(lst, 1, Len(lst) - 1)), lst[Len(lst)])

\* [b for b in library if b['rating'] >= 4]
RECURSIVE RatedAtLeast(_, _)
RatedAtLeast(lib, r) ==
    IF lib = <<>> THEN <<>>
    ELSE (IF Head(lib).rating >= r THEN << Head(lib) >> ELSE <<>>)
         \o RatedAtLeast(Tail(lib), r)

TopRated(lib) == SortedByRating(RatedAtLeast(lib, MinTopRating))

\* lst[:n]
Take(lst, n) == SubSeq(lst, 1, IF Len(lst) < n THEN Len(lst) ELSE n)

\* for book in library: if book['genre'] == genre
RECURSIVE BooksOfGenre(_, _)
BooksOfGenre(lib, genre) ==
    IF lib = <<>> THEN <<>>
    ELSE (IF Head(lib).genre = genre THEN << Head(lib) >> ELSE <<>>)
         \o BooksOfGenre(Tail(lib), genre)

Recommendations ==
    /\ LET most_read_genre == Mode(ReadGenres(library))
           top_rated == TopRated(library)
       IN  out' = IF SeriesAny(most_read_genre)
                  THEN [page |-> "recommendations", favourite |-> TRUE,
                        genre |-> most_read_genre[1],
                        genre_books |-> BooksOfGenre(library, most_read_genre[1]),
                        top |-> Take(top_rated, TopN)]
                  ELSE [page |-> "recommendations", favourite |-> FALSE,
                        genre |-> "", genre_books |-> <<>>,
                        top |-> Take(top_rated, TopN)]
    /\ op' = [name |-> "recommendations", i |-> -1]
    /\ UNCHANGED <<library, store, covers>>

(* A save followed by the load of the next session *)

SaveLoad ==
    /\ store' = save_data(library)
    /\ library' = load_data(store')
    /\ op' = [name |-> "reload", i |-> -1]
    /\ out' = Idle
    /\ UNCHANGED covers

-----

Add ==
    \E f \in AddInputs :
        /\ Len(library) < MaxBooks
        /\ AddBook(f.title, f.author, f.year, f.genre, f.read, f.rating, f.cover_image)

Edit ==
    \E i \in 0..(MaxBooks - 1), f \in EditInputs :
        EditBook(i, f.title, f.author, f.year, f.genre, f.read, f.rating)

Delete == \E i \in 0..(MaxBooks - 1) : DeleteBook(i)

Search == \E query \in Queries : SearchBooks(query)

Next == Add \/ Edit \/ Delete \/ Search \/ Statistics \/ Recommendations

Spec == Init /\ [][Next]_vars

-----------------------------------------------------------------------------
(* The query pages and the save/load round trip over catalogs of any       *)
(* content, each with the file its last save wrote (or no file yet for an  *)
(* empty one).                                                             *)

StoredBooks == {
    [title |-> <<"A", "b">>, author |-> <<"B", "a">>, year |-> 1999, genre |-> "Sci-Fi",
     read |-> TRUE, rating |-> 5, cover |-> CoverPath("a.png")],
    [title |-> <<"b">>, author |-> <<"a">>, year |-> 2001, genre |-> "Drama",
     read |-> FALSE, rating |-> 3, cover |-> <<>>],
    [title |-> <<"B">>, author |-> <<"a", "b">>, year |-> 2001, genre |-> "Drama",
     read |-> TRUE, rating |-> 4, cover |-> <<>>],
    [title |-> <<"a", "B">>, author |-> <<"A">>, year |-> 2001, genre |-> "Sci-Fi",
     read |-> FALSE, rating |-> 4, cover |-> <<>>],
    [title |-> <<>>, author |-> <<>>, year |-> 1999, genre |-> "",
     read |-> TRUE, rating |-> 2, cover |-> <<>>] }

Catalogs == UNION { [1..n -> StoredBooks] : n \in 0..MaxCatalog }

InitQuery ==
    /\ library \in Catalogs
    /\ store \in { save_data(library) } \cup (IF library = <<>> THEN { NoFile } ELSE {})
    /\ covers = NoCovers
    /\ op = [name |-> "start", i |-> -1]
    /\ out = Idle

NextQuery == Search \/ Statistics \/ Recommendations \/ SaveLoad

SpecQuery == InitQuery /\ [][NextQuery]_vars

-----------------------------------------------------------------------------
(* Properties *)

Last(lst) == lst[Len(lst)]

\* The k-th smallest element of a set of indices
Nth(idx, k) == CHOOSE i \in idx : Cardinality({j \in idx : j < i}) = k - 1

\* res is lib restricted to the indices idx, in lib's order
IsSelection(res, lib, idx) ==
    /\ Len(res) = Cardinality(idx)
    /\ \A k \in 1..Len(res) : res[k] = lib[Nth(idx, k)]

\* C1: after every completed add, edit or delete the document in library.json
\* holds the records of the in-memory catalog: same number, same order, and
\* the same value under every field.
C1_StoreEqualsCatalog ==
    op.name \in {"add", "edit", "delete"} =>
        /\ store # NoFile
        /\ LET doc == JsonLoad(store)
           IN  /\ Len(doc) = Len(library)
               /\ \A k \in 1..Len(library) :
                     /\ DOMAIN doc[k] = DOMAIN library[k]
                     /\ \A f \in DOMAIN library[k] : doc[k][f] = library[k][f]

C1_Witness == op.name = "edit" /\ Len(library) >= 2 /\ library[1] # library[2]

\* C2: delete(i) on a catalog of length n leaves n-1 records: those formerly at
\* 0..i-1 stay where they were and each one formerly at j > i is now at j-1.
C2_DeleteShifts ==
    [][op'.name = "delete" =>
          LET i == op'.i
              n == Len(library)
          IN  /\ i \in 0..(n - 1)
              /\ Len(library') = n - 1
              /\ \A j \in 0..(i - 1) : library'[j + 1] = library[j + 1]
              /\ \A j \in (i + 1)..(n - 1) : library'[j] = library[j + 1]]_vars

C2_Witness ==
    op.name = "delete" /\ op.i = 1 /\ Len(library) = 2 /\ library[1] # library[2]

\* C3: saving a catalog (the empty one included) and loading it again gives the
\* same records in the same order, and saving what was loaded writes the same
\* document again.
C3_RoundTrip ==
    [][op'.name = "reload" =>
          /\ library' = library
          /\ save_data(library') = store']_vars

C3_Witness == op.name = "reload" /\ Len(library) >= 2 /\ library[1] # library[2]

\* C4: right after a successful add, searching for the added record's title
\* finds that record, whatever the catalog held before.
C4_AddThenSearch ==
    op.name = "add" =>
        LET results == SearchResults(library, Last(library).title)
        IN  \E k \in 1..Len(results) : results[k] = Last(library)

C4_Witness == op.name = "add" /\ Len(library) >= 2 /\ Last(library) # library[1]

\* C5: Statistics reports total = number of records, read = number of records
\* whose read flag is set, and unread with read + unread = total; 0/0/0 for
\* the empty catalog.
C5_Statistics ==
    op.name = "statistics" =>
        /\ out.total = Len(library)
        /\ out.read = Cardinality({k \in 1..Len(library) : library[k].read})
        /\ out.read + out.unread = out.total
        /\ library = <<>> => out.total = 0 /\ out.read = 0 /\ out.unread = 0

C5_Witness ==
    /\ op.name = "statistics"
    /\ \E j, k \in 1..Len(library) : library[j].read /\ ~library[k].read

\* C6: for a non-empty query, search returns exactly the records whose title
\* or author contains the query when letter case is ignored, in catalog order.
SameLetter(a, b) == a = b \/ {a, b} \in {{"a", "A"}, {"b", "B"}}

ContainsIgnoringCase(q, s) ==
    \E off \in 0..(Len(s) - Len(q)) :
        \A k \in 1..Len(q) : SameLetter(q[k], s[off + k])

C6_SearchExact ==
    (op.name = "search" /\ out.query # <<>>) =>
        /\ out.ran
        /\ IsSelection(out.results, library,
              {k \in 1..Len(library) :
                  \/ ContainsIgnoringCase(out.query, library[k].title)
                  \/ ContainsIgnoringCase(out.query, library[k].author)})

C6_Witness ==
    /\ op.name = "search"
    /\ out.query = <<"a", "B">>
    /\ Len(out.results) >= 2
    /\ Len(out.results) < Len(library)

\* C7: the top-rated list holds at most 3 records, all rated >= 4, by rating
\* descending with equal ratings in catalog order, and leaves out no record
\* rated >= 4 that beats a listed one (higher rating, or equal rating and an
\* earlier position).
Beats(lib, j, k) ==
    \/ lib[j].rating > lib[k].rating
    \/ lib[j].rating = lib[k].rating /\ j < k

C7_TopRated ==
    op.name = "recommendations" =>
        LET eligible == {k \in 1..Len(library) : library[k].rating >= 4}
            place(k) == 1 + Cardinality({j \in eligible : Beats(library, j, k)})
            n == IF Cardinality(eligible) < 3 THEN Cardinality(eligible) ELSE 3
        IN  /\ Len(out.top) = n
            /\ \A a \in 1..n :
                  out.top[a] = library[CHOOSE k \in eligible : place(k) = a]

C7_Witness ==
    /\ op.name = "recommendations"
    /\ Cardinality({k \in 1..Len(library) : library[k].rating >= 4}) > 3
    /\ Len(out.top) = 3
    /\ out.top[1].rating = 5
    /\ out.top[2].rating = 4
    /\ out.top[3].rating = 4
    /\ out.top[2] # out.top[3]

\* C8: when at least one book is read, Recommendations picks one genre whose
\* count among the read books is maximal and lists every book of that genre;
\* when no book is read it shows no favourite-genre section.
ReadCount(lib, g) == Cardinality({k \in 1..Len(lib) : lib[k].read /\ lib[k].genre = g})

C8_FavouriteGenre ==
    op.name = "recommendations" =>
        IF \E k \in 1..Len(library) : library[k].read
        THEN /\ out.favourite
             /\ ReadCount(library, out.genre) >= 1
             /\ \A k \in 1..Len(library) :
                   ReadCount(library, library[k].genre) <= ReadCount(library, out.genre)
             /\ IsSelection(out.genre_books, library,
                   {k \in 1..Len(library) : library[k].genre = out.genre})
        ELSE ~out.favourite

\* C9: an add with an empty title, author or genre only warns: the catalog,
\* library.json and the cover directory stay as they were.
C9_RejectedAdd ==
    [][op'.name = "add_rejected" =>
          /\ out'.message = "warning"
          /\ library' = library
          /\ store' = store
          /\ covers' = covers]_vars

C9_Witness == op.name = "add_rejected" /\ Len(library) >= 1

\* C10: starting from an empty catalog, every record of the catalog has a
\* non-empty title, author and genre after any adds, edits and deletes.
C10_RequiredFields ==
    \A k \in 1..Len(library) :
        /\ library[k].title # <<>>
        /\ library[k].author # <<>>
        /\ library[k].genre # ""

====
